---- MODULE Spec2Model ----
(***************************************************************************)
(* A model of the ENZYME / UniProt pipeline                                *)
(*   parse_enzyme_core.py   the flat-file record parser                    *)
(*   download_uniprot.py    the chunked batch fetcher                      *)
(*   find_missing_uniprot_ids.py   the reconciler                          *)
(*   merge_enzyme_uniprot.py       the merger                              *)
(* A Python str is a sequence of one-character strings; None is the empty  *)
(* option <<>> and a present value v is <<v>>.                             *)
(***************************************************************************)
EXTENDS Integers, Sequences, FiniteSets, TLC

VARIABLES
    \* ---- parse_enzyme_dat ----
    consumed,     \* the lines of the file read so far, in order
    current,      \* the accumulator dict `current`
    rows,         \* the list `rows`
    ppc,          \* "reading" inside the for loop, "done" after the final flush
    \* ---- the DR-line scan on its own ----
    content,      \* a DR line's content
    accs,         \* the accessions appended for it (an option: None until scanned)
    \* ---- download_uniprot_batch / find_missing_ids ----
    pairs_col,    \* the UniProt_ID column of the pairs table (cells, None allowed)
    chunk_size,   \* the chunk_size argument
    chunks,       \* the list `chunks`
    idx,          \* the number of chunks whose loop iteration has started
    all_dfs,      \* the list `all_dfs`
    log,          \* the requests issued and delays slept, in order
    outcomes,     \* what the service did with each request, in order
    out_file,     \* the output file: None (absent) or the table written
    writes,       \* how often the output file has been written
    missing,      \* the reconciler's result: None until it has run
    fpc,          \* where the fetch / reconcile run stands
    \* ---- merge_enzyme_uniprot ----
    enzyme_raw,   \* the classification table
    pairs,        \* the pair table
    uniprot,      \* the sequence table
    joined,       \* the table `df` after the two merges, before the cleaning
    master,       \* the master table written
    n_dropped,    \* the dropped-row count reported
    mpc,          \* "input" while the tables are drawn, "done" after the merge
    \* ---- fetch_uniprot_batch column normalisation ----
    resp_cols,    \* the column labels of a parsed, non-empty response
    out_cols,     \* the columns of the table returned (None until it ran)
    \* ---- the column accesses of the four table-reading stages ----
    st_stage,     \* the stage run: "expand", "fetch", "reconcile", "merge"
    st_cols,      \* the <<table, column>> pairs its input tables hold
    st_step,      \* the next step of the stage's body
    st_error,     \* TRUE once the stage has raised
    st_writes,    \* output files written
    st_requests,  \* lookup requests issued
    st_sleeps,    \* delays slept
    \* ---- explode_uniprot_ids ----
    ex_input,     \* the classification table read: rows of EC_number, UniProt_IDs
    ex_output,    \* the pair table written (None until the stage ran)
    ex_again,     \* the pair table of a second run on the same input
    \* ---- the params of one lookup request ----
    q_n_ids,      \* how many distinct accessions the pairs table holds
    q_chunk_size, \* the chunk_size argument
    q_request     \* the request sent for the first chunk (None until sent)

parseVars == <<consumed, current, rows, ppc>>
drVars    == <<content, accs>>
fetchVars == <<pairs_col, chunk_size, chunks, idx, all_dfs, log, outcomes,
               out_file, writes, missing, fpc>>
mergeVars == <<enzyme_raw, pairs, uniprot, joined, master, n_dropped, mpc>>
normVars  == <<resp_cols, out_cols>>
stageVars == <<st_stage, st_cols, st_step, st_error, st_writes, st_requests,
               st_sleeps>>
explodeVars == <<ex_input, ex_output, ex_again>>
sizeVars == <<q_n_ids, q_chunk_size, q_request>>
vars == <<parseVars, drVars, fetchVars, mergeVars, normVars, stageVars,
          explodeVars, sizeVars>>

None == <<>>
Some(v) == <<v>>

(***************************************************************************)
(* Bounds                                                                  *)
(***************************************************************************)
MaxLines == 4        \* lines in a modelled flat file
MaxContent == 7      \* characters in a DR content of the scan specification
MaxPairs == 3        \* rows of a modelled pairs table
MaxChunk == 2        \* largest chunk_size argument tried
MaxRows == 2         \* rows of each table given to the merger
MaxCols == 3         \* columns of a modelled lookup response

(***************************************************************************)
(* Values of the variables a specification does not use                    *)
(***************************************************************************)
notParse == <<drVars, fetchVars, mergeVars, normVars, stageVars,
    explodeVars, sizeVars>>
notDR == <<parseVars, fetchVars, mergeVars, normVars, stageVars,
    explodeVars, sizeVars>>
notFetch == <<parseVars, drVars, mergeVars, normVars, stageVars,
    explodeVars, sizeVars>>
notMerge == <<parseVars, drVars, fetchVars, normVars, stageVars,
    explodeVars, sizeVars>>
notNorm == <<parseVars, drVars, fetchVars, mergeVars, stageVars,
    explodeVars, sizeVars>>

notStage == <<parseVars, drVars, fetchVars, mergeVars, normVars, explodeVars,
    sizeVars>>
notExplode == <<parseVars, drVars, fetchVars, mergeVars, normVars, stageVars,
    sizeVars>>
notSize == <<parseVars, drVars, fetchVars, mergeVars, normVars, stageVars,
    explodeVars>>

IdleParse ==
    /\ consumed = <<>>
    /\ current = [EC_number |-> <<>>, Enzyme_name |-> <<>>, Alt_names |-> <<>>,
                  Reaction |-> <<>>, Prosite_refs |-> <<>>, UniProt_IDs |-> <<>>]
    /\ rows = <<>> /\ ppc = "idle"
IdleDR == content = <<>> /\ accs = None
IdleFetch ==
    /\ pairs_col = <<>> /\ chunk_size = 1 /\ chunks = <<>> /\ idx = 0
    /\ all_dfs = <<>> /\ log = <<>> /\ outcomes = <<>> /\ out_file = None
    /\ writes = 0 /\ missing = None /\ fpc = "idle"
IdleMerge ==
    /\ enzyme_raw = <<>> /\ pairs = <<>> /\ uniprot = <<>> /\ joined = <<>>
    /\ master = <<>>
    /\ n_dropped = 0 /\ mpc = "idle"
IdleNorm == resp_cols = <<>> /\ out_cols = None
IdleStage ==
    /\ st_stage = "none" /\ st_cols = {} /\ st_step = 1 /\ st_error = FALSE
    /\ st_writes = 0 /\ st_requests = 0 /\ st_sleeps = 0
IdleExplode == ex_input = <<>> /\ ex_output = None /\ ex_again = None
IdleSize == q_n_ids = 0 /\ q_chunk_size = 0 /\ q_request = None

(***************************************************************************)
(* Python str helpers                                                      *)
(***************************************************************************)
UpperChars == {"A","B","C","D","E","F","G","H","I","J","K","L","M",
               "N","O","P","Q","R","S","T","U","V","W","X","Y","Z"}
DigitChars == {"0","1","2","3","4","5","6","7","8","9"}
LowerChars == {"a","b","c","d","e","f","g","h","i","j","k","l","m",
               "n","o","p","q","r","s","t","u","v","w","x","y","z"}
SpaceChars == {" "}
\* the regex class [A-Z0-9]
AccChars == UpperChars \cup DigitChars
\* the regex class \w
WordChars == UpperChars \cup DigitChars \cup LowerChars \cup {"_"}

\* s[n:]
Drop(s, n) == IF n >= Len(s) THEN <<>> ELSE SubSeq(s, n + 1, Len(s))
\* s[:n]
Take(s, n) == IF n >= Len(s) THEN s ELSE SubSeq(s, 1, n)

RECURSIVE LStrip(_)
LStrip(s) == IF s # <<>> /\ Head(s) \in SpaceChars THEN LStrip(Tail(s)) ELSE s
RECURSIVE RStrip(_)
RStrip(s) ==
    IF s # <<>> /\ s[Len(s)] \in SpaceChars THEN RStrip(SubSeq(s, 1, Len(s) - 1)) ELSE s
\* str.strip()
Strip(s) == RStrip(LStrip(s))

\* str.split(): the maximal runs of non-whitespace characters
RECURSIVE SplitFrom(_, _)
SplitFrom(s, tok) ==
    IF s = <<>> THEN (IF tok = <<>> THEN <<>> ELSE <<tok>>)
    ELSE IF Head(s) \in SpaceChars
         THEN (IF tok = <<>> THEN <<>> ELSE <<tok>>) \o SplitFrom(Tail(s), <<>>)
         ELSE SplitFrom(Tail(s), Append(tok, Head(s)))
Split(s) == SplitFrom(s, <<>>)

\* sep.join(list)
RECURSIVE Join(_, _)
Join(sep, list) ==
    IF list = <<>> THEN <<>>
    ELSE IF Len(list) = 1 THEN list[1]
    ELSE list[1] \o sep \o Join(sep, Tail(list))

\* `x or None` for a str x
OrNone(s) == IF s = <<>> THEN None ELSE Some(s)

StartsWith(s, p) == Len(s) >= Len(p) /\ SubSeq(s, 1, Len(p)) = p

(***************************************************************************)
(* The DR scan: re.findall(r"\b([A-Z0-9]{6})\b", content) and the PS filter *)
(***************************************************************************)
AccLen == 6

IsWordAt(s, p) == p >= 1 /\ p <= Len(s) /\ s[p] \in WordChars
\* \b at the gap before position p
WordBoundary(s, p) == IsWordAt(s, p - 1) # IsWordAt(s, p)

MatchAt(s, i) ==
    /\ i + AccLen - 1 <= Len(s)
    /\ WordBoundary(s, i)
    /\ \A k \in i..(i + AccLen - 1) : s[k] \in AccChars
    /\ WordBoundary(s, i + AccLen)

\* findall scans left to right and resumes after each match
RECURSIVE FindAll(_, _)
FindAll(s, i) ==
    IF i > Len(s) THEN <<>>
    ELSE IF MatchAt(s, i)
         THEN <<SubSeq(s, i, i + AccLen - 1)>> \o FindAll(s, i + AccLen)
         ELSE FindAll(s, i + 1)

PSPrefix == <<"P", "S">>

\* the filter without the startswith("PS") test
DropPS_keepAll(cands) == cands

RECURSIVE DropPS(_)
DropPS(cands) ==
    IF cands = <<>> THEN <<>>
    ELSE IF StartsWith(Head(cands), PSPrefix) THEN DropPS(Tail(cands))
         ELSE <<Head(cands)>> \o DropPS(Tail(cands))

\* the accessions one DR line appends to current["UniProt_IDs"]
DRAccessions(c) == DropPS(FindAll(c, 1))

(***************************************************************************)
(* parse_enzyme_dat                                                        *)
(***************************************************************************)
EmptyEntry ==
    [EC_number |-> None, Enzyme_name |-> <<>>, Alt_names |-> <<>>,
     Reaction |-> <<>>, Prosite_refs |-> <<>>, UniProt_IDs |-> <<>>]

\* the dict flush_entry appends to rows
\* the first occurrence of every element of a list, in order
RECURSIVE Dedup(_, _)
Dedup(list, seen) ==
    IF list = <<>> THEN <<>>
    ELSE IF Head(list) \in seen THEN Dedup(Tail(list), seen)
    ELSE <<Head(list)>> \o Dedup(Tail(list), seen \cup {Head(list)})

\* the row with the accession list deduplicated by appearance
RowOf_dedup(cur) ==
    [EC_number |-> cur.EC_number,
     Enzyme_name |-> OrNone(Join(<<" ">>, cur.Enzyme_name)),
     Alt_names |-> OrNone(Join(<<" ">>, cur.Alt_names)),
     Reaction |-> OrNone(Join(<<" ">>, cur.Reaction)),
     Prosite_refs |-> OrNone(Join(<<";", " ">>, cur.Prosite_refs)),
     UniProt_IDs |-> OrNone(Join(<<",">>, Dedup(cur.UniProt_IDs, {})))]

\* the row flush_entry appends
RowOf(cur) ==
    [EC_number |-> cur.EC_number,
     Enzyme_name |-> OrNone(Join(<<" ">>, cur.Enzyme_name)),
     Alt_names |-> OrNone(Join(<<" ">>, cur.Alt_names)),
     Reaction |-> OrNone(Join(<<" ">>, cur.Reaction)),
     Prosite_refs |-> OrNone(Join(<<";", " ">>, cur.Prosite_refs)),
     UniProt_IDs |-> OrNone(Join(<<",">>, cur.UniProt_IDs))]

\* flush_entry without its early return on a null id
flush_entry_unguarded(cur, rs) == <<EmptyEntry, Append(rs, RowOf(cur))>>

\* flush_entry: the pair <<current, rows>> after the call
flush_entry(cur, rs) ==
    IF cur.EC_number = None THEN <<cur, rs>>
    ELSE <<EmptyEntry, Append(rs, RowOf(cur))>>

Code(line) == Take(line, 2)
Content(line) == Strip(Drop(line, 5))

\* the lines a modelled file is made of
Lines == {
    <<"I","D"," "," "," ","1",".","1">>,
    <<"I","D"," "," "," ","2",".","1"," ","x">>,
    <<"I","D">>,
    <<"D","E"," "," "," ","a","d","h",".">>,
    <<"D","E">>,
    <<"A","N"," "," "," ","b"," ","c">>,
    <<"C","A"," "," "," ","r"," ","=","s">>,
    <<"P","R"," "," "," ","P","D","O","C","1">>,
    <<"D","R"," "," "," ","P","0","0","3","3","0",","," ","A","D","H","1","_","Y","E","A","S","T"," ",";",
      " ","P","0","0","3","3","0",","," ","Q","9","X","Y","Z","1","_","Y","E","A","S","T"," ",";">>,
    <<"D","R"," "," "," ","P","S","0","0","0","1",";">>,
    <<"/","/">>,
    <<>>,
    <<"C","C"," "," "," ","-","!","-">>
}

KnownCodes == {<<"I","D">>, <<"D","E">>, <<"A","N">>, <<"C","A">>, <<"P","R">>,
               <<"D","R">>, <<"/","/">>}

InitParse ==
    /\ consumed = <<>>
    /\ current = EmptyEntry
    /\ rows = <<>>
    /\ ppc = "reading"

CanRead == ppc = "reading" /\ Len(consumed) < MaxLines

ReadBlank ==
    /\ CanRead
    /\ \E line \in Lines :
        /\ line = <<>>
        /\ consumed' = Append(consumed, line)
    /\ UNCHANGED <<current, rows, ppc, notParse>>

ReadID ==
    /\ CanRead
    /\ \E line \in Lines :
        /\ line # <<>>
        /\ Code(line) = <<"I","D">>
        /\ consumed' = Append(consumed, line)
        /\ LET fl == IF current.EC_number # None THEN flush_entry(current, rows)
                     ELSE <<current, rows>>
               parts == Split(Content(line))
           IN /\ current' = [fl[1] EXCEPT !.EC_number =
                                 IF parts # <<>> THEN Some(parts[1]) ELSE None]
              /\ rows' = fl[2]
    /\ UNCHANGED <<ppc, notParse>>

ReadField(code, field) ==
    /\ CanRead
    /\ \E line \in Lines :
        /\ line # <<>>
        /\ Code(line) = code
        /\ consumed' = Append(consumed, line)
        /\ current' = [current EXCEPT ![field] = Append(@, Content(line))]
    /\ UNCHANGED <<rows, ppc, notParse>>

ReadDE == ReadField(<<"D","E">>, "Enzyme_name")
ReadAN == ReadField(<<"A","N">>, "Alt_names")
ReadCA == ReadField(<<"C","A">>, "Reaction")
ReadPR == ReadField(<<"P","R">>, "Prosite_refs")

ReadDR ==
    /\ CanRead
    /\ \E line \in Lines :
        /\ line # <<>>
        /\ Code(line) = <<"D","R">>
        /\ consumed' = Append(consumed, line)
        /\ current' = [current EXCEPT !.UniProt_IDs = @ \o DRAccessions(Content(line))]
    /\ UNCHANGED <<rows, ppc, notParse>>

ReadTerminator ==
    /\ CanRead
    /\ \E line \in Lines :
        /\ line # <<>>
        /\ Code(line) = <<"/","/">>
        /\ consumed' = Append(consumed, line)
        /\ LET fl == flush_entry(current, rows)
           IN current' = fl[1] /\ rows' = fl[2]
    /\ UNCHANGED <<ppc, notParse>>

\* a line with an unknown code treated as the end of the entry
ReadOther_flushes ==
    /\ CanRead
    /\ \E line \in Lines :
        /\ line # <<>>
        /\ Code(line) \notin KnownCodes
        /\ consumed' = Append(consumed, line)
        /\ LET fl == flush_entry(current, rows)
           IN current' = fl[1] /\ rows' = fl[2]
    /\ UNCHANGED <<ppc, notParse>>

ReadOther ==
    /\ CanRead
    /\ \E line \in Lines :
        /\ line # <<>>
        /\ Code(line) \notin KnownCodes
        /\ consumed' = Append(consumed, line)
    /\ UNCHANGED <<current, rows, ppc, notParse>>

EndOfStream ==
    /\ ppc = "reading"
    /\ LET fl == flush_entry(current, rows)
       IN current' = fl[1] /\ rows' = fl[2]
    /\ ppc' = "done"
    /\ UNCHANGED <<consumed, notParse>>


(***************************************************************************)
(* The parser's specification                                              *)
(***************************************************************************)
InitP == InitParse /\ IdleDR /\ IdleFetch /\ IdleMerge /\ IdleNorm
    /\ IdleStage /\ IdleExplode /\ IdleSize
NextP ==
    \/ ReadBlank \/ ReadID \/ ReadDE \/ ReadAN \/ ReadCA \/ ReadPR \/ ReadDR
    \/ ReadTerminator \/ ReadOther \/ EndOfStream
SpecParse == InitP /\ [][NextP]_vars

\* an ID line whose content has a first token
IsIDLine(line) == line # <<>> /\ Code(line) = <<"I","D">>
IsOpening(line) == IsIDLine(line) /\ Split(Content(line)) # <<>>
IsTerminator(line) == line # <<>> /\ Code(line) = <<"/","/">>

\* the indices of the opening lines of a file, ascending
RECURSIVE OpeningIdxs(_, _)
OpeningIdxs(file, i) ==
    IF i > Len(file) THEN <<>>
    ELSE (IF IsOpening(file[i]) THEN <<i>> ELSE <<>>) \o OpeningIdxs(file, i + 1)

IdAt(file, i) == Split(Content(file[i]))[1]

\* the ids of the entries still open / already emitted
OpenIds == IF current.EC_number # None THEN <<current.EC_number[1]>> ELSE <<>>
EmittedIds == [k \in 1..Len(rows) |-> rows[k].EC_number]

\* C1: every entry opened by an ID line with a non-empty id is emitted exactly
\* once, at the next ID line, the next '//' line or the end of the stream; the
\* emitted records are in the order of their ID lines and none has a null
\* EC_number.
C1_EmittedOnceInOrder ==
    ppc \in {"reading", "done"} =>
        LET opened == OpeningIdxs(consumed, 1)
            ids == [k \in 1..Len(opened) |-> Some(IdAt(consumed, opened[k]))]
            n == Len(consumed)
        IN /\ \A k \in 1..Len(rows) : rows[k].EC_number # None
           /\ Len(OpenIds) + Len(rows) = Len(ids)
           /\ \A k \in 1..Len(rows) : rows[k].EC_number = ids[k]
           /\ OpenIds # <<>> => Some(OpenIds[1]) = ids[Len(ids)]
           \* an entry stays open only until the next ID line, '//' or the end
           /\ OpenIds # <<>> =>
                 /\ ppc = "reading"
                 /\ \A j \in (opened[Len(opened)] + 1)..n :
                        ~IsIDLine(consumed[j]) /\ ~IsTerminator(consumed[j])

\* C1 witness: a file with two entries, the first closed by the second's ID
\* line and the second by the end of the stream, has been parsed.
C1_Witness ==
    /\ ppc = "done"
    /\ Len(rows) = 2
    /\ Len(consumed) = 2
    /\ IsOpening(consumed[1]) /\ IsOpening(consumed[2])

\* the end of the entry opened at line i: the next ID or '//' line, else the end
RECURSIVE EntryEnd(_, _)
EntryEnd(file, j) ==
    IF j > Len(file) THEN j
    ELSE IF IsIDLine(file[j]) \/ IsTerminator(file[j]) THEN j
    ELSE EntryEnd(file, j + 1)

\* the contents of the lines with the given code strictly between i and e
RECURSIVE ContentsOf(_, _, _, _)
ContentsOf(file, code, j, e) ==
    IF j >= e THEN <<>>
    ELSE (IF file[j] # <<>> /\ Code(file[j]) = code THEN <<Content(file[j])>> ELSE <<>>)
         \o ContentsOf(file, code, j + 1, e)

RECURSIVE Flatten(_)
Flatten(ss) == IF ss = <<>> THEN <<>> ELSE Head(ss) \o Flatten(Tail(ss))

\* the record made of the entry's own lines only
OwnRecord(file, i) ==
    LET e == EntryEnd(file, i + 1)
        own(code) == ContentsOf(file, code, i + 1, e)
        drs == own(<<"D","R">>)
    IN [EC_number |-> Some(IdAt(file, i)),
        Enzyme_name |-> OrNone(Join(<<" ">>, own(<<"D","E">>))),
        Alt_names |-> OrNone(Join(<<" ">>, own(<<"A","N">>))),
        Reaction |-> OrNone(Join(<<" ">>, own(<<"C","A">>))),
        Prosite_refs |-> OrNone(Join(<<";", " ">>, own(<<"P","R">>))),
        UniProt_IDs |-> OrNone(Join(<<",">>,
            Flatten([k \in 1..Len(drs) |-> DRAccessions(drs[k])])))]

\* C2: the fields of every emitted record are built only from the DE/AN/CA/PR/DR
\* lines between the record's own ID line and its flush point; lines before the
\* first ID line, or after an empty ID line or a '//' line, reach no record.
C2_OnlyOwnLines ==
    ppc \in {"reading", "done"} =>
        LET opened == OpeningIdxs(consumed, 1)
        IN \A k \in 1..Len(rows) :
              k <= Len(opened) /\ rows[k] = OwnRecord(consumed, opened[k])

(***************************************************************************)
(* The DR scan on every content over a small alphabet                      *)
(***************************************************************************)
\* an accession character, the two letters of the PS prefix, an underscore,
\* a lower-case letter and a separator
DRAlphabet == {"P", "S", "_", "a", ","}

InitDR == content = <<>> /\ accs = None /\ IdleParse /\ IdleFetch /\ IdleMerge /\ IdleNorm
    /\ IdleStage /\ IdleExplode /\ IdleSize

\* one more character of the DR line's content
TypeChar ==
    /\ accs = None
    /\ Len(content) < MaxContent
    /\ \E c \in DRAlphabet : content' = Append(content, c)
    /\ UNCHANGED <<accs, notDR>>

\* the DR branch of parse_enzyme_dat on this content
ScanDR ==
    /\ accs = None
    /\ accs' = Some(DRAccessions(content))
    /\ UNCHANGED <<content, notDR>>

NextDR == TypeChar \/ ScanDR
SpecDR == InitDR /\ [][NextDR]_vars

AlnumChars == UpperChars \cup DigitChars \cup LowerChars

\* the start positions of the 6-character [A-Z0-9] runs of c whose neighbours
\* on both sides are outside `inner` (or are the ends of c)
RunStarts(c, inner) ==
    {i \in 1..Len(c) :
        /\ i + 5 <= Len(c)
        /\ \A k \in i..(i + 5) : c[k] \in AccChars
        /\ (i = 1 \/ c[i - 1] \notin inner)
        /\ (i + 5 = Len(c) \/ c[i + 6] \notin inner)}

\* the runs at the given start positions, left to right, without the PS ones
RECURSIVE RunsFrom(_, _, _)
RunsFrom(c, starts, i) ==
    IF i > Len(c) THEN <<>>
    ELSE (IF i \in starts /\ ~(c[i] = "P" /\ c[i + 1] = "S")
          THEN <<SubSeq(c, i, i + 5)>> ELSE <<>>) \o RunsFrom(c, starts, i + 1)

Accessions == {1, 2, 3}

Range(f) == {f[k] : k \in DOMAIN f}

\* Series.dropna().unique() as a set
DropnaUnique(col) == {c[1] : c \in {x \in Range(col) : x # None}}

Min(S) == CHOOSE x \in S : \A y \in S : x <= y

Max(S) == CHOOSE x \in S : \A y \in S : x >= y

\* sorted(..., reverse=True)
RECURSIVE sorted_desc(_)
sorted_desc(S) == IF S = {} THEN <<>> ELSE <<Max(S)>> \o sorted_desc(S \ {Max(S)})

\* sorted(...)
RECURSIVE sorted(_)
sorted(S) == IF S = {} THEN <<>> ELSE <<Min(S)>> \o sorted(S \ {Min(S)})

\* range(0, n, step) with its 0-based values
RangeStep(i, n, step) ==
    IF i >= n THEN <<>>
    ELSE [k \in 1..((n - i + step - 1) \div step) |-> i + (k - 1) * step]

\* items[a:b] with 0-based a, b
Slice(items, a, b) ==
    LET hi == IF b > Len(items) THEN Len(items) ELSE b
    IN IF a >= hi THEN <<>> ELSE SubSeq(items, a + 1, hi)

\* chunk_list that drops a last, shorter chunk
chunk_list_fullOnly(items, size) ==
    LET starts == RangeStep(0, Len(items) - size + 1, size)
    IN [k \in 1..Len(starts) |-> Slice(items, starts[k], starts[k] + size)]

chunk_list(items, size) ==
    LET starts == RangeStep(0, Len(items), size)
    IN [k \in 1..Len(starts) |-> Slice(items, starts[k], starts[k] + size)]

\* one row of the table fetch_uniprot_batch returns; v tells the responses apart
Entry(id, v) ==
    [UniProt_ID |-> id, Sequence |-> v, Length |-> v, Organism |-> v,
     Protein_name |-> v, Gene_name |-> v]

\* what the lookup service does with one request
FailureKinds == {"transport_error", "http_error", "empty_body"}
OutcomeSet ==
    {<<k, 0>> : k \in FailureKinds \cup {"complete", "partial", "no_id"}}
        \cup {<<"extra", x>> : x \in Accessions}

\* the rows of a non-empty response body, parsed and normalised
Body(chunk, o, v) ==
    LET full == [k \in 1..Len(chunk) |-> Entry(Some(chunk[k]), v)]
    IN CASE o[1] = "complete" -> full
         [] o[1] = "partial" -> SubSeq(full, 1, Len(full) - 1)
         [] o[1] = "no_id" -> [k \in 1..Len(chunk) |-> Entry(None, v)]
         [] o[1] = "extra" -> Append(full, Entry(Some(o[2]), v))

Returned(df) == [raised |-> FALSE, df |-> df]
Raised == [raised |-> TRUE, df |-> <<>>]

\* fetch_uniprot_batch without the try/except around requests.get
fetch_uniprot_batch_uncaught(chunk, o, v) ==
    IF chunk = <<>> THEN Returned(<<>>)
    ELSE IF o[1] = "transport_error" THEN Raised
    ELSE IF o[1] = "http_error" THEN Returned(<<>>)
    ELSE IF o[1] = "empty_body" THEN Returned(<<>>)
    ELSE Returned(Body(chunk, o, v))

\* fetch_uniprot_batch: an empty DataFrame on failure or no matches
fetch_uniprot_batch(chunk, o, v) ==
    IF chunk = <<>> THEN Returned(<<>>)
    ELSE IF o[1] = "transport_error" THEN Returned(<<>>)
    ELSE IF o[1] = "http_error" THEN Returned(<<>>)
    ELSE IF o[1] = "empty_body" THEN Returned(<<>>)
    ELSE Returned(Body(chunk, o, v))

RECURSIVE Reverse(_)
Reverse(q) == IF q = <<>> THEN <<>> ELSE Append(Reverse(Tail(q)), Head(q))

RECURSIVE KeepFirst(_, _)
KeepFirst(t, seen) ==
    IF t = <<>> THEN <<>>
    ELSE IF Head(t).UniProt_ID \in seen THEN KeepFirst(Tail(t), seen)
    ELSE <<Head(t)>> \o KeepFirst(Tail(t), seen \cup {Head(t).UniProt_ID})

\* drop_duplicates left out
drop_duplicates_none(t, seen) == t

\* drop_duplicates(subset=["UniProt_ID"], keep="last")
drop_duplicates_keepLast(t, seen) == Reverse(KeepFirst(Reverse(t), seen))

\* DataFrame.drop_duplicates(subset=["UniProt_ID"]): the first row of each id stays
RECURSIVE drop_duplicates(_, _)
drop_duplicates(t, seen) ==
    IF t = <<>> THEN <<>>
    ELSE IF Head(t).UniProt_ID \in seen THEN drop_duplicates(Tail(t), seen)
    ELSE <<Head(t)>> \o drop_duplicates(Tail(t), seen \cup {Head(t).UniProt_ID})

\* pd.concat(all_dfs, ignore_index=True)
concat(dfs) == Flatten(dfs)

\* an output file left by an earlier run
StaleTable == <<Entry(Some(1), 0)>>

InitFetch ==
    /\ pairs_col = <<>> /\ chunk_size = 1 /\ chunks = <<>> /\ idx = 0
    /\ all_dfs = <<>> /\ log = <<>> /\ outcomes = <<>> /\ out_file = None
    /\ writes = 0 /\ missing = None /\ fpc = "input"

\* one more row of the pairs table read at the start
AddPair ==
    /\ fpc = "input"
    /\ Len(pairs_col) < MaxPairs
    /\ \E c \in {None} \cup {Some(a) : a \in Accessions} :
           pairs_col' = Append(pairs_col, c)
    /\ UNCHANGED <<chunk_size, chunks, idx, all_dfs, log, outcomes, out_file,
                   writes, missing, fpc, notFetch>>

\* download_uniprot_batch up to the loop: the sorted unique ids and the chunks
StartDownload ==
    /\ fpc = "input"
    /\ \E cs \in 1..MaxChunk, old \in {None, Some(StaleTable)} :
        /\ chunk_size' = cs
        /\ out_file' = old
        /\ LET unique_ids == sorted(DropnaUnique(pairs_col))
           IN chunks' = chunk_list(unique_ids, cs)
    /\ fpc' = "loop"
    /\ UNCHANGED <<pairs_col, idx, all_dfs, log, outcomes, writes, missing, notFetch>>

\* the loop iteration with the sleep as a back-off after a failed chunk only
FetchChunk_sleepAfterFailure ==
    /\ fpc = "loop"
    /\ idx < Len(chunks)
    /\ \E o \in OutcomeSet :
        LET chunk == chunks[idx + 1]
            r == fetch_uniprot_batch(chunk, o, idx + 1)
        IN /\ idx' = idx + 1
           /\ outcomes' = Append(outcomes, o)
           /\ fpc' = "loop"
           /\ all_dfs' = IF r.df # <<>> THEN Append(all_dfs, r.df) ELSE all_dfs
           /\ log' = IF r.df # <<>>
                     THEN Append(log, [op |-> "request", chunk |-> chunk])
                     ELSE log \o <<[op |-> "request", chunk |-> chunk],
                                   [op |-> "sleep", chunk |-> <<>>]>>
    /\ UNCHANGED <<pairs_col, chunk_size, chunks, out_file, writes, missing, notFetch>>

\* one iteration of the loop: the request, the append, the sleep
FetchChunk ==
    /\ fpc = "loop"
    /\ idx < Len(chunks)
    /\ \E o \in OutcomeSet :
        LET chunk == chunks[idx + 1]
            r == fetch_uniprot_batch(chunk, o, idx + 1)
        IN /\ idx' = idx + 1
           /\ outcomes' = Append(outcomes, o)
           /\ IF r.raised
              THEN /\ fpc' = "aborted"
                   /\ log' = Append(log, [op |-> "request", chunk |-> chunk])
                   /\ UNCHANGED all_dfs
              ELSE /\ fpc' = "loop"
                   /\ all_dfs' = IF r.df # <<>> THEN Append(all_dfs, r.df) ELSE all_dfs
                   /\ log' = log \o <<[op |-> "request", chunk |-> chunk],
                                      [op |-> "sleep", chunk |-> <<>>]>>
    /\ UNCHANGED <<pairs_col, chunk_size, chunks, out_file, writes, missing, notFetch>>

\* the end of the run writing an empty table when nothing was fetched
FinishEmpty_writesEmptyTable ==
    /\ fpc = "loop"
    /\ idx = Len(chunks)
    /\ all_dfs = <<>>
    /\ out_file' = Some(<<>>)
    /\ writes' = writes + 1
    /\ fpc' = "done"
    /\ UNCHANGED <<pairs_col, chunk_size, chunks, idx, all_dfs, log, outcomes,
                   missing, notFetch>>

\* after the loop: nothing fetched, no file
FinishEmpty ==
    /\ fpc = "loop"
    /\ idx = Len(chunks)
    /\ all_dfs = <<>>
    /\ fpc' = "done"
    /\ UNCHANGED <<pairs_col, chunk_size, chunks, idx, all_dfs, log, outcomes,
                   out_file, writes, missing, notFetch>>

\* after the loop: concat, drop_duplicates, to_csv
FinishWrite ==
    /\ fpc = "loop"
    /\ idx = Len(chunks)
    /\ all_dfs # <<>>
    /\ out_file' = Some(drop_duplicates(concat(all_dfs), {}))
    /\ writes' = writes + 1
    /\ fpc' = "done"
    /\ UNCHANGED <<pairs_col, chunk_size, chunks, idx, all_dfs, log, outcomes,
                   missing, notFetch>>

\* find_missing_ids with the difference taken the wrong way round
find_missing_ids_swapped(pcol, uni) ==
    sorted(DropnaUnique([k \in 1..Len(uni) |-> uni[k].UniProt_ID]) \ DropnaUnique(pcol))

\* find_missing_ids: the list `missing`
find_missing_ids(pcol, uni) ==
    LET all_ids == DropnaUnique(pcol)
        got_ids == DropnaUnique([k \in 1..Len(uni) |-> uni[k].UniProt_ID])
    IN sorted(all_ids \ got_ids)

\* the reconciler run on the pairs table and the fetch stage's output file
Reconcile ==
    /\ fpc = "done"
    /\ out_file # None
    /\ missing' = Some(find_missing_ids(pairs_col, out_file[1]))
    /\ fpc' = "reconciled"
    /\ UNCHANGED <<pairs_col, chunk_size, chunks, idx, all_dfs, log, outcomes,
                   out_file, writes, notFetch>>

\* pd.read_csv raises when the output file does not exist
ReconcileNoFile ==
    /\ fpc = "done"
    /\ out_file = None
    /\ fpc' = "reconcile_failed"
    /\ UNCHANGED <<pairs_col, chunk_size, chunks, idx, all_dfs, log, outcomes,
                   out_file, writes, missing, notFetch>>

InitF == InitFetch /\ IdleParse /\ IdleDR /\ IdleMerge /\ IdleNorm
    /\ IdleStage /\ IdleExplode /\ IdleSize
NextF ==
    \/ AddPair \/ StartDownload \/ FetchChunk \/ FinishEmpty \/ FinishWrite
    \/ Reconcile \/ ReconcileNoFile
SpecFetch == InitF /\ [][NextF]_vars

\* ---- what the claims about the fetch and the reconciler speak of ----
Running == fpc \in {"loop", "aborted", "done", "reconciled", "reconcile_failed"}
AfterLoop == fpc \in {"done", "reconciled", "reconcile_failed"}
ReconcilerRan == fpc \in {"reconciled", "reconcile_failed"}

\* the chunks requested so far, in the order of the requests
Requested == LET reqs == SelectSeq(log, LAMBDA e : e.op = "request")
             IN [k \in 1..Len(reqs) |-> reqs[k].chunk]

IsFailure(o) == o[1] \in FailureKinds

\* the rows request k contributed: none for a failed or empty chunk
Contribution(k) ==
    IF IsFailure(outcomes[k]) THEN <<>> ELSE Body(chunks[k], outcomes[k], k)

StrictlyAscending(q) == \A i, j \in 1..Len(q) : i < j => q[i] < q[j]

\* C4: whatever the service does with each chunk, the run never aborts; every
\* chunk is requested exactly once, in chunk order, and never again; a failed or
\* empty chunk adds nothing; the accumulated result is the concatenation of the
\* entries of the non-empty successful chunks.
C4_NoAbortOneRequestPerChunk ==
    Running =>
        /\ fpc # "aborted"
        /\ idx <= Len(chunks)
        /\ Len(outcomes) = idx
        /\ Requested = SubSeq(chunks, 1, idx)
        /\ AfterLoop => idx = Len(chunks)
        /\ \A k \in 1..Len(all_dfs) : all_dfs[k] # <<>>
        /\ Len(all_dfs) = Cardinality({k \in 1..idx : Contribution(k) # <<>>})
        /\ concat(all_dfs) = Flatten([k \in 1..idx |-> Contribution(k)])

\* C4 witness: a run of three chunks ended normally after a transport error, a
\* bad status and a complete answer.
C4_Witness ==
    /\ fpc = "done"
    /\ outcomes = <<<<"transport_error", 0>>, <<"http_error", 0>>, <<"complete", 0>>>>
    /\ Len(all_dfs) = 1

\* every successful chunk returned exactly one entry per accession of the chunk
AllComplete == \A k \in 1..Len(outcomes) : outcomes[k][1] \in FailureKinds \cup {"complete"}
SomeSucceeded == \E k \in 1..Len(outcomes) : outcomes[k][1] = "complete"
FailedAccessions ==
    UNION {Range(chunks[k]) : k \in {j \in 1..Len(outcomes) : IsFailure(outcomes[j])}}
RetrievedIds ==
    IF out_file = None THEN {}
    ELSE DropnaUnique([k \in 1..Len(out_file[1]) |-> out_file[1][k].UniProt_ID])

\* C5 as claimed: for every pattern of failing chunks the reconciler, run after
\* the fetch, reports exactly the accessions of the failed chunks as missing.
C5_MissingIsFailedChunks ==
    (ReconcilerRan /\ AllComplete) =>
        /\ fpc = "reconciled"
        /\ missing = Some(sorted(FailedAccessions))

\* C5 amended: when at least one chunk succeeds, the reconciler reports exactly
\* the accessions of the failed chunks, none of which was retrieved; when every
\* chunk fails the fetch writes no file, and the reconciler raises unless an
\* earlier run's file exists.
C5_MissingIsFailedChunksIfSomeSucceeded ==
    (ReconcilerRan /\ AllComplete) =>
        /\ SomeSucceeded =>
              /\ fpc = "reconciled"
              /\ writes = 1
              /\ StrictlyAscending(missing[1])
              /\ Range(missing[1]) = FailedAccessions
              /\ Range(missing[1]) \cap RetrievedIds = {}
        /\ ~SomeSucceeded =>
              /\ writes = 0
              /\ (fpc = "reconcile_failed") = (out_file = None)

\* C5 witness: Scenario C, accessions 1, 2, 3 in chunks of 2, the second chunk
\* failed in transport and the reconciler reported accession 3.
C5_Witness ==
    /\ fpc = "reconciled"
    /\ chunks = << <<1, 2>>, <<3>> >>
    /\ outcomes = <<<<"complete", 0>>, <<"transport_error", 0>>>>
    /\ missing = Some(<<3>>)

\* C6: the reconciler's list is requested \ retrieved exactly, ascending and
\* duplicate-free, also when accessions were retrieved that nobody requested;
\* it is empty when everything requested was retrieved.
C6_MissingIsDifference ==
    fpc = "reconciled" =>
        LET m == missing[1]
            requested(a) == \E k \in 1..Len(pairs_col) : pairs_col[k] = Some(a)
            retrieved(a) == \E k \in 1..Len(out_file[1]) : out_file[1][k].UniProt_ID = Some(a)
        IN /\ StrictlyAscending(m)
           /\ \A k \in 1..Len(m) : m[k] \in Accessions
           /\ \A a \in Accessions :
                 (\E k \in 1..Len(m) : m[k] = a) <=> (requested(a) /\ ~retrieved(a))
           /\ (\A a \in Accessions : requested(a) => retrieved(a)) => m = <<>>

\* C6 witness: two accessions are missing although an accession nobody
\* requested was retrieved.
C6_Witness ==
    /\ fpc = "reconciled"
    /\ Len(missing[1]) = 2
    /\ \E a \in RetrievedIds : \A k \in 1..Len(pairs_col) : pairs_col[k] # Some(a)

\* C7: the chunks are contiguous slices of the ascending, duplicate-free list
\* of the accessions; each holds between 1 and chunk_size of them, only the
\* last may hold fewer than chunk_size, and together they are that list.
C7_ChunksPartitionSortedIds ==
    Running =>
        LET flat == Flatten(chunks)
        IN /\ StrictlyAscending(flat)
           /\ Range(flat) = {a \in Accessions : Some(a) \in Range(pairs_col)}
           /\ \A k \in 1..Len(chunks) :
                 /\ Len(chunks[k]) >= 1
                 /\ Len(chunks[k]) <= chunk_size
                 /\ k < Len(chunks) => Len(chunks[k]) = chunk_size

\* C7 witness: three accessions read out of order are cut into a full chunk and
\* a shorter last one.
C7_Witness ==
    /\ fpc = "loop"
    /\ pairs_col = <<Some(3), Some(1), Some(2)>>
    /\ chunk_size = 2
    /\ chunks = << <<1, 2>>, <<3>> >>

\* ---- the output file of the fetch ----
Untouched == out_file \in {None, Some(StaleTable)}
NothingFetched == \A k \in 1..Len(outcomes) : Contribution(k) = <<>>

\* the requests that returned an entry for accession a
SeenIn(a) ==
    {k \in 1..Len(outcomes) :
        \E j \in 1..Len(Contribution(k)) : Contribution(k)[j].UniProt_ID = Some(a)}

\* C11: the sequence table written holds at most one entry per accession, also
\* when an accession is returned by two chunks or twice within one chunk.
C11_OneEntryPerAccession ==
    writes > 0 =>
        LET t == out_file[1]
        IN \A i, j \in 1..Len(t) : t[i].UniProt_ID = t[j].UniProt_ID => i = j

\* C11 witness: a table was written after accession 1 came back from two chunks
\* and accession 2 twice within one chunk.
C11_Witness ==
    /\ writes = 1
    /\ Cardinality(SeenIn(1)) = 2
    /\ \E k \in 1..Len(outcomes) : outcomes[k] = <<"extra", 2>> /\ 2 \in Range(chunks[k])

\* C12: when every chunk yields zero entries (or there is no chunk) the run ends
\* normally and the output file is neither created nor changed; when a chunk
\* yields entries the file is written exactly once, after the last chunk.
C12_FileWrittenOnceIffFetched ==
    Running =>
        /\ fpc # "aborted"
        /\ fpc = "loop" => writes = 0 /\ Untouched
        /\ (AfterLoop /\ NothingFetched) => writes = 0 /\ Untouched
        /\ (AfterLoop /\ ~NothingFetched) =>
              /\ writes = 1
              /\ ~Untouched
              /\ idx = Len(chunks)

\* C12 witness: two chunks failed, the run ended, and the file an earlier run
\* left is as it was.
C12_Witness ==
    /\ fpc = "done"
    /\ Len(outcomes) = 2
    /\ NothingFetched
    /\ writes = 0
    /\ out_file = Some(StaleTable)

\* C12 second case: a file was written once after a failed and a good chunk.
C12_WitnessWritten ==
    /\ fpc = "done"
    /\ outcomes = <<<<"http_error", 0>>, <<"complete", 0>>>>
    /\ writes = 1

\* C15: the log of a run is request, sleep, request, sleep, ...: exactly one
\* delay between two consecutive requests, whatever the earlier chunk did, and
\* no request before the delay after the previous one.
C15_OneSleepBetweenRequests ==
    Running =>
        /\ Len(log) = 2 * idx
        /\ \A i \in 1..Len(log) :
              log[i].op = (IF i % 2 = 1 THEN "request" ELSE "sleep")

\* C15 witness: a failed, an empty and a good chunk, each followed by its delay.
C15_Witness ==
    /\ idx = 3
    /\ outcomes = <<<<"transport_error", 0>>, <<"empty_body", 0>>, <<"complete", 0>>>>
    /\ Len(log) = 6

\* C16 as claimed: of the entries two chunks return for one accession, the one
\* of the later chunk is in the output.
C16_KeepsLastSeen ==
    writes > 0 =>
        \A i \in 1..Len(out_file[1]) :
            LET r == out_file[1][i]
            IN r.UniProt_ID # None => r.Sequence = Max(SeenIn(r.UniProt_ID[1]))

\* C16 amended: of the entries two chunks return for one accession, the one of
\* the earlier chunk, the first seen, is in the output.
C16_KeepsFirstSeen ==
    writes > 0 =>
        \A i \in 1..Len(out_file[1]) :
            LET r == out_file[1][i]
            IN r.UniProt_ID # None => r.Sequence = Min(SeenIn(r.UniProt_ID[1]))

\* C16 witness: accession 1 came back from the first and the second chunk with
\* differing metadata and a table was written.
C16_Witness ==
    /\ writes = 1
    /\ SeenIn(1) = {1, 2}
    /\ \E i \in 1..Len(out_file[1]) : out_file[1][i] = Entry(Some(1), 1)

(***************************************************************************)
(* merge_enzyme_uniprot                                                    *)
(* Classification ids and accessions are numbers, strings are character    *)
(* sequences, a missing cell (NaN) is None.  The key columns hold no NaN.  *)
(***************************************************************************)
EnzymeRow(ec, name, ids) ==
    [EC_number |-> ec, Enzyme_name |-> name, Alt_names |-> None,
     Reaction |-> Some(<<"r">>), Prosite_refs |-> None, UniProt_IDs |-> ids]

\* the rows a modelled classification table is made of: id 1 three times, twice
\* with the same metadata
EnzymeRows ==
    {EnzymeRow(1, Some(<<"a">>), Some(<<"1">>)),
     EnzymeRow(1, Some(<<"a">>), Some(<<"1", ",", "2">>)),
     EnzymeRow(1, Some(<<"b">>), Some(<<"1">>))}

\* the rows of a modelled pair table: id 3 is in no classification table
PairRows ==
    {[EC_number |-> 1, UniProt_ID |-> 1], [EC_number |-> 1, UniProt_ID |-> 2],
     [EC_number |-> 3, UniProt_ID |-> 1]}

SeqRow(acc, seq) ==
    [UniProt_ID |-> acc, Sequence |-> seq, Length |-> None, Organism |-> None,
     Protein_name |-> None, Gene_name |-> None]

\* the rows of a modelled sequence table: a sequence, "" and NaN
UniprotRows ==
    {SeqRow(1, Some(<<"M", "K">>)), SeqRow(1, Some(<<>>)), SeqRow(1, None),
     SeqRow(2, Some(<<"M", "A">>))}

MetaCols == {"EC_number", "Enzyme_name", "Alt_names", "Reaction", "Prosite_refs"}
SeqCols == {"UniProt_ID", "Sequence", "Length", "Organism", "Protein_name", "Gene_name"}

\* enzyme_raw[[...]]: the columns of a row that are in cols
Project(r, cols) == [c \in cols |-> r[c]]

\* DataFrame.drop_duplicates() on whole rows: the first of equal rows stays
RECURSIVE drop_duplicate_rows(_, _)
drop_duplicate_rows(t, seen) ==
    IF t = <<>> THEN <<>>
    ELSE IF Head(t) \in seen THEN drop_duplicate_rows(Tail(t), seen)
    ELSE <<Head(t)>> \o drop_duplicate_rows(Tail(t), seen \cup {Head(t)})

\* a row of the left table with the columns of a row of the right table
Combine(l, r) ==
    [c \in (DOMAIN l) \cup (DOMAIN r) |-> IF c \in DOMAIN l THEN l[c] ELSE r[c]]
NullRow(cols) == [c \in cols |-> None]

\* left.merge(right, on=key, how="inner") for one left row
MergeRow_inner(l, right, key, rcols) ==
    LET hits == SelectSeq(right, LAMBDA r : r[key] = l[key])
    IN [k \in 1..Len(hits) |-> Combine(l, hits[k])]

\* left.merge(right, on=key, how="left") for one left row
MergeRow(l, right, key, rcols) ==
    LET hits == SelectSeq(right, LAMBDA r : r[key] = l[key])
    IN IF hits = <<>> THEN <<Combine(l, NullRow(rcols))>>
       ELSE [k \in 1..Len(hits) |-> Combine(l, hits[k])]

merge(left, right, key, rcols) ==
    Flatten([k \in 1..Len(left) |-> MergeRow(left[k], right, key, rcols)])

\* Series.astype(str) of a cell
astype_str(cell) == IF cell = None THEN <<"n", "a", "n">> ELSE cell[1]

\* the cleaning mask with the notna() test only
HasSequence_notnaOnly(r) == r.Sequence # None

\* df["Sequence"].notna() & (df["Sequence"].astype(str) != "")
HasSequence(r) == r.Sequence # None /\ astype_str(r.Sequence) # <<>>

InitMerge ==
    /\ enzyme_raw = <<>> /\ pairs = <<>> /\ uniprot = <<>> /\ joined = <<>>
    /\ master = <<>> /\ n_dropped = 0 /\ mpc = "input"

\* the three tables read at the start, one row at a time
AddEnzymeRow ==
    /\ mpc = "input" /\ Len(enzyme_raw) < MaxRows
    /\ \E r \in EnzymeRows : enzyme_raw' = Append(enzyme_raw, r)
    /\ UNCHANGED <<pairs, uniprot, joined, master, n_dropped, mpc, notMerge>>

AddPairRow ==
    /\ mpc = "input" /\ Len(pairs) < MaxRows
    /\ \E r \in PairRows : pairs' = Append(pairs, r)
    /\ UNCHANGED <<enzyme_raw, uniprot, joined, master, n_dropped, mpc, notMerge>>

AddUniprotRow ==
    /\ mpc = "input" /\ Len(uniprot) < MaxRows
    /\ \E r \in UniprotRows : uniprot' = Append(uniprot, r)
    /\ UNCHANGED <<enzyme_raw, pairs, joined, master, n_dropped, mpc, notMerge>>

merge_enzyme_uniprot ==
    /\ mpc = "input"
    /\ LET ec_meta == drop_duplicate_rows(
                          [k \in 1..Len(enzyme_raw) |-> Project(enzyme_raw[k], MetaCols)], {})
           df1 == merge(pairs, ec_meta, "EC_number", MetaCols)
           df2 == merge(df1, uniprot, "UniProt_ID", SeqCols)
           n_before == Len(df2)
           df3 == SelectSeq(df2, HasSequence)
           n_after == Len(df3)
       IN /\ joined' = df2
          /\ master' = df3
          /\ n_dropped' = n_before - n_after
    /\ mpc' = "done"
    /\ UNCHANGED <<enzyme_raw, pairs, uniprot, notMerge>>

InitM == InitMerge /\ IdleParse /\ IdleDR /\ IdleFetch /\ IdleNorm
    /\ IdleStage /\ IdleExplode /\ IdleSize
NextM == AddEnzymeRow \/ AddPairRow \/ AddUniprotRow \/ merge_enzyme_uniprot
SpecMerge == InitM /\ [][NextM]_vars

Count(t, P(_)) == Len(SelectSeq(t, P))

\* C8: the merger drops exactly the joined rows whose sequence is null or the
\* empty string, keeps the others in their order, and the count it reports is
\* the number of rows before the filter minus the number after.
C8_DropsExactlySequenceless ==
    mpc = "done" =>
        LET noSeq(r) == r.Sequence = None \/ r.Sequence = Some(<<>>)
        IN /\ master = SelectSeq(joined, LAMBDA r : ~noSeq(r))
           /\ \A k \in 1..Len(master) : ~noSeq(master[k])
           /\ n_dropped = Len(joined) - Len(master)
           /\ n_dropped = Count(joined, noSeq)

\* C8 witness: Scenario D, a joined row with the sequence "" and one with a
\* real sequence; the first was dropped.
C8_Witness ==
    /\ mpc = "done"
    /\ \E k \in 1..Len(joined) : joined[k].Sequence = Some(<<>>)
    /\ Len(master) = 1
    /\ n_dropped >= 1

IdFound(p) == \E k \in 1..Len(enzyme_raw) : enzyme_raw[k].EC_number = p.EC_number
SeqFound(p) ==
    \E k \in 1..Len(uniprot) :
        /\ uniprot[k].UniProt_ID = p.UniProt_ID
        /\ uniprot[k].Sequence # None /\ uniprot[k].Sequence # Some(<<>>)
SamePair(r, p) == r.EC_number = p.EC_number /\ r.UniProt_ID = p.UniProt_ID

\* C9 as claimed: the master rows are as many as the pairs whose id is in the
\* classification table and whose accession has a non-empty sequence; no master
\* row has an id that was not found, and no pair yields more than one row.
C9_OneRowPerFullyJoinedPair ==
    mpc = "done" =>
        /\ Len(master) = Count(pairs, LAMBDA p : IdFound(p) /\ SeqFound(p))
        /\ \A k \in 1..Len(master) : IdFound(master[k])
        /\ \A k \in 1..Len(pairs) :
              Count(master, LAMBDA r : SamePair(r, pairs[k]))
                  <= Count(pairs, LAMBDA p : p = pairs[k])

\* the rows one pair yields: one per distinct metadata row of its id (one with
\* null metadata when there is none) and per sequence row with a sequence
DistinctMeta(p) ==
    {Project(enzyme_raw[k], MetaCols) :
        k \in {j \in 1..Len(enzyme_raw) : enzyme_raw[j].EC_number = p.EC_number}}
Yield(p) ==
    (IF DistinctMeta(p) = {} THEN 1 ELSE Cardinality(DistinctMeta(p)))
        * Count(uniprot, LAMBDA u : u.UniProt_ID = p.UniProt_ID
                                    /\ u.Sequence # None /\ u.Sequence # Some(<<>>))

RECURSIVE SumYield(_)
SumYield(ps) == IF ps = <<>> THEN 0 ELSE Yield(Head(ps)) + SumYield(Tail(ps))

\* C9 amended: every pair yields one master row per distinct metadata row of its
\* id (one row with null metadata when the id is not found) and per sequence row
\* of its accession with a non-empty sequence; only the second join has to
\* succeed, and a master row either carries a metadata row of its id or, its id
\* not found, null metadata.
C9_RowsPerPairLeftJoin ==
    mpc = "done" =>
        /\ Len(master) = SumYield(pairs)
        /\ \A k \in 1..Len(master) :
              LET r == master[k]
              IN /\ \E i \in 1..Len(pairs) : SamePair(r, pairs[i])
                 /\ IF IdFound(r) THEN Project(r, MetaCols) \in DistinctMeta(r)
                    ELSE \A c \in MetaCols \ {"EC_number"} : r[c] = None
                 /\ \E u \in Range(uniprot) : Project(r, SeqCols) = u

\* C9 witness: a pair whose id is in no classification row is in the master
\* table, and another pair is there twice.
C9_Witness ==
    /\ mpc = "done"
    /\ \E k \in 1..Len(master) : ~IdFound(master[k])
    /\ Len(master) > Len(pairs)

(***************************************************************************)
(* fetch_uniprot_batch: the column names of the table it returns           *)
(* A column is its name and the response label its data came from, "<NA>"  *)
(* for a column filled with pd.NA.                                         *)
(***************************************************************************)
\* rename_map, in the order of the dict
rename_map ==
    <<<<"Entry", "UniProt_ID">>,
      <<"Accession", "UniProt_ID">>,
      <<"Organism", "Organism">>,
      <<"Organism (scientific name)", "Organism">>,
      <<"Organism [Organism]", "Organism">>,
      <<"Protein names", "Protein_name">>,
      <<"Protein name", "Protein_name">>,
      <<"Gene Names", "Gene_name">>,
      <<"Gene Names (primary)", "Gene_name">>,
      <<"Gene Names (primary name)", "Gene_name">>,
      <<"Sequence", "Sequence">>,
      <<"Length", "Length">>>>

expected == <<"UniProt_ID", "Sequence", "Length", "Organism", "Protein_name", "Gene_name">>

\* the labels a response may carry: the known synonyms and two unknown ones
Labels == {rename_map[k][1] : k \in 1..Len(rename_map)} \cup {"Reviewed", "Entry Name"}

Names(cols) == [k \in 1..Len(cols) |-> cols[k].name]

\* the loop of df.rename calls, from entry k of rename_map on
RECURSIVE RenameAll(_, _)
RenameAll(cols, k) ==
    IF k > Len(rename_map) THEN cols
    ELSE LET old == rename_map[k][1]
             new == rename_map[k][2]
         IN RenameAll([j \in 1..Len(cols) |->
                          IF cols[j].name = old THEN [cols[j] EXCEPT !.name = new]
                          ELSE cols[j]], k + 1)

\* the loop that adds a pd.NA column for every expected name not there
RECURSIVE AddMissing(_, _)
AddMissing(cols, k) ==
    IF k > Len(expected) THEN cols
    ELSE IF expected[k] \in Range(Names(cols)) THEN AddMissing(cols, k + 1)
    ELSE AddMissing(Append(cols, [name |-> expected[k], data |-> "<NA>"]), k + 1)

\* df[expected]: for each name, every column of that name
SelectColumns(cols, names) ==
    Flatten([k \in 1..Len(names) |->
                SelectSeq(cols, LAMBDA c : c.name = names[k])])

InitNorm == resp_cols = <<>> /\ out_cols = None

\* one more column in the header of the response
AddColumn ==
    /\ out_cols = None
    /\ Len(resp_cols) < MaxCols
    /\ \E l \in Labels \ Range(resp_cols) : resp_cols' = Append(resp_cols, l)
    /\ UNCHANGED <<out_cols, notNorm>>

\* fetch_uniprot_batch from read_csv to the return
NormalizeColumns ==
    /\ out_cols = None
    /\ resp_cols # <<>>
    /\ LET df == [k \in 1..Len(resp_cols) |-> [name |-> resp_cols[k], data |-> resp_cols[k]]]
       IN out_cols' = Some(SelectColumns(AddMissing(RenameAll(df, 1), 1), expected))
    /\ UNCHANGED <<resp_cols, notNorm>>

InitN == InitNorm /\ IdleParse /\ IdleDR /\ IdleFetch /\ IdleMerge
    /\ IdleStage /\ IdleExplode /\ IdleSize
NextN == AddColumn \/ NormalizeColumns
SpecNorm == InitN /\ [][NextN]_vars

\* the canonical name rename_map gives a label (the label itself if it has none)
Canonical(l) ==
    IF \E k \in 1..Len(rename_map) : rename_map[k][1] = l
    THEN rename_map[CHOOSE k \in 1..Len(rename_map) : rename_map[k][1] = l][2]
    ELSE l

\* C10: whatever labels a non-empty response carries, the table returned has
\* exactly the six canonical columns, each once and in the canonical order, and
\* the column of a canonical field is all-null iff no response label maps to it.
C10_ExactlySixColumns ==
    out_cols # None =>
        /\ Names(out_cols[1]) = expected
        /\ \A k \in 1..Len(out_cols[1]) :
              (out_cols[1][k].data = "<NA>")
                  <=> ~(\E l \in Range(resp_cols) : Canonical(l) = out_cols[1][k].name)

(***************************************************************************)
(* The column accesses of the four stages that read an input table.        *)
(* A stage's body is the sequence of its statements that look a column up  *)
(* or have an outside effect, in program order.  A step raises (ValueError *)
(* from an explicit check, KeyError from pandas) when a column it looks up *)
(* is absent, and the exception leaves the stage.                          *)
(***************************************************************************)
EnzymeCols == {"EC_number", "Enzyme_name", "Alt_names", "Reaction",
               "Prosite_refs", "UniProt_IDs"}
PairCols == {"EC_number", "UniProt_ID"}

Of(table, cols) == {<<table, c>> : c \in cols}
Step(needs, does) == [needs |-> needs, does |-> does]

\* explode_uniprot_ids
ExpandSteps ==
    << Step(Of("enzyme_raw", {"UniProt_IDs"}), "none"),   \* the column check
       Step(Of("enzyme_raw", {"UniProt_IDs"}), "none"),   \* fillna, split
       Step(Of("enzyme_raw", {"UniProt_IDs"}), "none"),   \* explode
       Step(Of("enzyme_raw", {"EC_number"}), "none"),     \* the selection
       Step({}, "write") >>

\* download_uniprot_batch, with a loop of two chunks
FetchSteps ==
    << Step(Of("pairs", {"UniProt_ID"}), "none"),         \* the column check
       Step(Of("pairs", {"UniProt_ID"}), "none"),         \* unique_ids
       Step({}, "request"), Step({}, "sleep"),
       Step({}, "request"), Step({}, "sleep"),
       Step({}, "write") >>

\* find_missing_ids
ReconcileSteps ==
    << Step(Of("pairs", {"UniProt_ID"}), "none"),         \* all_ids
       Step(Of("uniprot", {"UniProt_ID"}), "none"),       \* got_ids
       Step({}, "write") >>

\* merge_enzyme_uniprot without the cleaning step's column lookup
MergeSteps_noCleaning ==
    << Step(Of("enzyme_raw", MetaCols), "none"),
       Step(Of("pairs", {"EC_number"}), "none"),
       Step(Of("pairs", {"UniProt_ID"}) \cup Of("uniprot", {"UniProt_ID"}),
            "none"),
       Step({}, "write") >>

\* merge_enzyme_uniprot
MergeSteps ==
    << Step(Of("enzyme_raw", MetaCols), "none"),          \* ec_meta
       Step(Of("pairs", {"EC_number"}), "none"),          \* merge on EC_number
       Step(Of("pairs", {"UniProt_ID"}) \cup Of("uniprot", {"UniProt_ID"}),
            "none"),                                      \* merge on UniProt_ID
       Step(Of("uniprot", {"Sequence"}), "none"),         \* df["Sequence"]
       Step({}, "write") >>

Stages == {"expand", "fetch", "reconcile", "merge"}

StepsOf(stage) ==
    CASE stage = "expand" -> ExpandSteps
      [] stage = "fetch" -> FetchSteps
      [] stage = "reconcile" -> ReconcileSteps
      [] stage = "merge" -> MergeSteps

\* the columns the tables a stage reads can hold
InputCols(stage) ==
    CASE stage = "expand" -> Of("enzyme_raw", EnzymeCols)
      [] stage = "fetch" -> Of("pairs", PairCols)
      [] stage = "reconcile" ->
            Of("pairs", PairCols) \cup Of("uniprot", SeqCols)
      [] stage = "merge" ->
            Of("enzyme_raw", EnzymeCols) \cup Of("pairs", PairCols)
                \cup Of("uniprot", SeqCols)

InitStage == IdleStage

\* read_csv: the stage starts on tables holding some of their columns
BeginStage ==
    /\ st_stage = "none"
    /\ \E stage \in Stages : \E cols \in SUBSET InputCols(stage) :
        /\ st_stage' = stage
        /\ st_cols' = cols
    /\ UNCHANGED <<st_step, st_error, st_writes, st_requests, st_sleeps,
                   notStage>>

\* the next statement of the stage's body
RunStep ==
    /\ st_stage \in Stages
    /\ ~st_error
    /\ st_step <= Len(StepsOf(st_stage))
    /\ LET s == StepsOf(st_stage)[st_step] IN
        IF ~(s.needs \subseteq st_cols)
        THEN /\ st_error' = TRUE
             /\ UNCHANGED <<st_step, st_writes, st_requests, st_sleeps>>
        ELSE /\ st_step' = st_step + 1
             /\ st_writes' = st_writes + (IF s.does = "write" THEN 1 ELSE 0)
             /\ st_requests' =
                    st_requests + (IF s.does = "request" THEN 1 ELSE 0)
             /\ st_sleeps' = st_sleeps + (IF s.does = "sleep" THEN 1 ELSE 0)
             /\ UNCHANGED st_error
    /\ UNCHANGED <<st_stage, st_cols, notStage>>

InitS == InitStage /\ IdleParse /\ IdleDR /\ IdleFetch /\ IdleMerge /\ IdleNorm
    /\ IdleExplode /\ IdleSize
NextS == BeginStage \/ RunStep
SpecCols == InitS /\ [][NextS]_vars

\* the columns each stage's input tables are documented to hold
Required(stage) ==
    CASE stage = "expand" -> Of("enzyme_raw", {"EC_number", "UniProt_IDs"})
      [] stage = "fetch" -> Of("pairs", {"UniProt_ID"})
      [] stage = "reconcile" ->
            Of("pairs", {"UniProt_ID"}) \cup Of("uniprot", {"UniProt_ID"})
      [] stage = "merge" ->
            Of("enzyme_raw", {"EC_number", "Enzyme_name", "Alt_names",
                              "Reaction", "Prosite_refs"})
                \cup Of("pairs", {"EC_number", "UniProt_ID"})
                \cup Of("uniprot", {"UniProt_ID", "Sequence"})

StageEnded == st_error \/ st_step > Len(StepsOf(st_stage))

\* C13: a stage run on input tables that lack a required column never
\* writes an output file, never issues a request and never sleeps, and when
\* it ends it has ended with an error.
C13_MissingColumnAborts ==
    (st_stage \in Stages /\ Required(st_stage) \ st_cols # {}) =>
        /\ st_writes = 0
        /\ st_requests = 0
        /\ st_sleeps = 0
        /\ StageEnded => st_error

\* the merger has done both joins and raises on the absent Sequence column
C13_Witness ==
    /\ st_stage = "merge"
    /\ Required("merge") \ st_cols = Of("uniprot", {"Sequence"})
    /\ st_step = 4
    /\ st_error
    /\ st_writes = 0

\* the fetcher given a pairs table without UniProt_ID raises at its check
C13_WitnessFetch ==
    /\ st_stage = "fetch"
    /\ <<"pairs", "UniProt_ID">> \notin st_cols
    /\ st_step = 1
    /\ st_error
    /\ st_requests = 0 /\ st_sleeps = 0

(***************************************************************************)
(* explode_uniprot_ids                                                     *)
(***************************************************************************)
MaxRecords == 2      \* rows of a classification table given to the expander

\* the EC numbers of the modelled table
ExIds == {1, 2}

\* the UniProt_IDs cells of the modelled table as read_csv returns them: NaN
\* for an empty cell, else the cell's text
ExCells == {
    None,
    Some(<<"A">>),
    Some(<<"A", ",", "B">>),
    Some(<<"A", ",", "A">>),
    Some(<<"A", ",", ",", "B">>),
    Some(<<",", "A">>),
    Some(<<"A", ",">>),
    Some(<<",">>),
    Some(<<" ">>),
    Some(<<"A", ",", " ">>),
    Some(<<"A", ",", " ", "B">>),
    Some(<<"B">>)
}

ExRows == [EC_number : ExIds, UniProt_IDs : ExCells]

\* .fillna("").astype(str)
fillna_str(cell) == IF cell = None THEN <<>> ELSE cell[1]

\* s.split(",")
RECURSIVE SplitCommaFrom(_, _)
SplitCommaFrom(s, tok) ==
    IF s = <<>> THEN <<tok>>
    ELSE IF Head(s) = "," THEN <<tok>> \o SplitCommaFrom(Tail(s), <<>>)
    ELSE SplitCommaFrom(Tail(s), Append(tok, Head(s)))
SplitComma(s) == SplitCommaFrom(s, <<>>)

\* s.split(",") without the list comprehension's condition
id_list_unfiltered(s) == SplitComma(s)

\* [x for x in s.split(",") if x.strip()]
id_list(s) == SelectSeq(SplitComma(s), LAMBDA x : Strip(x) # <<>>)

\* df.explode("UniProt_IDs") on one row, renamed: a row per list element, and
\* one row with NaN for an empty list
ExplodeRow(r) ==
    LET ids == id_list(fillna_str(r.UniProt_IDs)) IN
    IF ids = <<>> THEN <<[EC_number |-> r.EC_number, UniProt_ID |-> None]>>
    ELSE [k \in 1..Len(ids) |->
            [EC_number |-> r.EC_number, UniProt_ID |-> Some(ids[k])]]

RECURSIVE ExplodeAll(_)
ExplodeAll(t) == IF t = <<>> THEN <<>> ELSE ExplodeRow(Head(t)) \o ExplodeAll(Tail(t))

\* exploded["UniProt_ID"].notna() & (exploded["UniProt_ID"] != "")
HasAccession(r) == r.UniProt_ID # None /\ r.UniProt_ID # Some(<<>>)

\* the table explode_uniprot_ids writes
explode_uniprot_ids(t) ==
    drop_duplicate_rows(SelectSeq(ExplodeAll(t), HasAccession), {})

InitExplode == ex_input = <<>> /\ ex_output = None /\ ex_again = None

\* the input table read, one row at a time
AddRecord ==
    /\ ex_output = None /\ Len(ex_input) < MaxRecords
    /\ \E r \in ExRows : ex_input' = Append(ex_input, r)
    /\ UNCHANGED <<ex_output, ex_again, notExplode>>

\* one run of the stage
Explode ==
    /\ ex_output = None
    /\ ex_output' = Some(explode_uniprot_ids(ex_input))
    /\ UNCHANGED <<ex_input, ex_again, notExplode>>

\* a second run on the same input table
ExplodeAgain ==
    /\ ex_output # None /\ ex_again = None
    /\ ex_again' = Some(explode_uniprot_ids(ex_input))
    /\ UNCHANGED <<ex_input, ex_output, notExplode>>

InitE == InitExplode /\ IdleParse /\ IdleDR /\ IdleFetch /\ IdleMerge /\ IdleNorm
    /\ IdleStage /\ IdleSize
NextE == AddRecord \/ Explode \/ ExplodeAgain
SpecExplode == InitE /\ [][NextE]_vars

\* the elements of the comma-split of s: the comma-free stretches of s that
\* reach from a comma or the start of s to a comma or the end of s
TokensOf(s) ==
    {SubSeq(s, i, j) : <<i, j>> \in
        {p \in (1..Len(s) + 1) \X (0..Len(s)) :
            /\ p[2] >= p[1] - 1
            /\ p[1] = 1 \/ s[p[1] - 1] = ","
            /\ p[2] = Len(s) \/ s[p[2] + 1] = ","
            /\ \A k \in p[1]..p[2] : s[k] # ","}}

IsBlank(tok) == \A k \in 1..Len(tok) : tok[k] \in SpaceChars

CellText(r) == IF r.UniProt_IDs = None THEN <<>> ELSE r.UniProt_IDs[1]

PairSet(t) == {<<t[k].EC_number, t[k].UniProt_ID>> : k \in 1..Len(t)}

\* C14 as claimed: the pairs written are exactly the (id, token) with token a
\* non-empty element of the comma-split of a record's accession string.
C14_NonEmptyTokens ==
    ex_output # None =>
        PairSet(ex_output[1]) =
            {<<ex_input[k].EC_number, Some(tok)>> : <<k, tok>> \in
                {p \in (1..Len(ex_input)) \X
                       UNION {TokensOf(CellText(ex_input[k])) : k \in 1..Len(ex_input)} :
                    /\ p[2] \in TokensOf(CellText(ex_input[p[1]]))
                    /\ p[2] # <<>>}}

\* C14: the pairs written are exactly the (id, token) with token an element
\* of the comma-split of a record's accession string that is not blank (not
\* empty and not made of whitespace only), tokens kept as they stand; no
\* pair has a null or empty accession, no pair is written twice, a record
\* with a null or empty accession field yields no pair, and a second run on
\* the same table writes the same table.
C14_NonBlankTokens ==
    /\ ex_output # None =>
        /\ PairSet(ex_output[1]) =
            {<<ex_input[k].EC_number, Some(tok)>> : <<k, tok>> \in
                {p \in (1..Len(ex_input)) \X
                       UNION {TokensOf(CellText(ex_input[k])) : k \in 1..Len(ex_input)} :
                    /\ p[2] \in TokensOf(CellText(ex_input[p[1]]))
                    /\ ~IsBlank(p[2])}}
        /\ \A k \in 1..Len(ex_output[1]) :
            ex_output[1][k].UniProt_ID \notin {None, Some(<<>>)}
        /\ \A j, k \in 1..Len(ex_output[1]) :
            ex_output[1][j] = ex_output[1][k] => j = k
        /\ (\A k \in 1..Len(ex_input) : CellText(ex_input[k]) = <<>>)
            => ex_output[1] = <<>>
    /\ ex_again # None => ex_again = ex_output

\* a record whose field ends in a whitespace-only token and a record that
\* repeats the first one's accession have been expanded, twice
C14_Witness ==
    /\ ex_again # None
    /\ Len(ex_input) = 2
    /\ ex_input[1].UniProt_IDs = Some(<<"A", ",", " ">>)
    /\ ex_input[2] = [EC_number |-> ex_input[1].EC_number,
                      UniProt_IDs |-> Some(<<"A", ",", "A">>)]
    /\ Len(ex_output[1]) = 1

\* a record with a null accession field has been expanded to nothing
C14_WitnessNull ==
    /\ ex_output = Some(<<>>)
    /\ Len(ex_input) = 1
    /\ ex_input[1].UniProt_IDs = None

(***************************************************************************)
(* Further properties of the record parser                                 *)
(***************************************************************************)
LastLine(file) == file[Len(file)]
ReadsLine == Len(consumed') = Len(consumed) + 1

\* a blank line, or a line whose first two characters are no known tag
IsIgnored(line) == line = <<>> \/ Take(line, 2) \notin KnownCodes

\* C17: reading a blank line or a line with an unknown tag changes neither
\* the accumulator nor the emitted rows, whether or not an entry is open.
C17_IgnoredLinesKeepState ==
    [][(ReadsLine /\ IsIgnored(LastLine(consumed')))
        => (current' = current /\ rows' = rows /\ ppc' = ppc)]_vars

\* an unknown-tag line and a blank line have been read inside an entry that
\* has a name, and the entry is still open with its name
C17_Witness ==
    /\ Len(consumed) = 4
    /\ consumed[3] # <<>> /\ IsIgnored(consumed[3])
    /\ consumed[4] = <<>>
    /\ current.EC_number # None
    /\ current.Enzyme_name # <<>>
    /\ rows = <<>>

\* the accessions a row's comma-joined field lists
RowAccessions(row) ==
    IF row.UniProt_IDs = None THEN <<>> ELSE SplitComma(row.UniProt_IDs[1])

RECURSIVE EmittedAccessions(_)
EmittedAccessions(rs) ==
    IF rs = <<>> THEN <<>>
    ELSE RowAccessions(Head(rs)) \o EmittedAccessions(Tail(rs))

\* every accession matched in the DR lines of a file, in order of occurrence
RECURSIVE AllDRAccessions(_)
AllDRAccessions(file) ==
    IF file = <<>> THEN <<>>
    ELSE (IF Head(file) # <<>> /\ Take(Head(file), 2) = <<"D","R">>
          THEN DRAccessions(Strip(Drop(Head(file), 5))) ELSE <<>>)
         \o AllDRAccessions(Tail(file))

HasRepeat(list) == \E j, k \in 1..Len(list) : j < k /\ list[j] = list[k]

\* C18 as claimed: no emitted record lists an accession twice.
C18_DedupByAppearance ==
    \A k \in 1..Len(rows) : ~HasRepeat(RowAccessions(rows[k]))

\* C18: flushing does not deduplicate.  The accession fields of the emitted
\* records, followed by the accumulator's list, are all the accessions
\* matched in the DR lines read so far, in order of occurrence and with
\* every repeat.
C18_AccessionsKeptWithRepeats ==
    EmittedAccessions(rows) \o current.UniProt_IDs = AllDRAccessions(consumed)

\* an entry whose DR line names one accession twice has been emitted
C18_Witness ==
    /\ rows # <<>>
    /\ HasRepeat(RowAccessions(rows[1]))
    /\ rows[1].EC_number # None

\* a step that calls flush_entry: an ID line, a '//' line, the end of the file
IsFlushStep ==
    \/ ppc' # ppc
    \/ /\ ReadsLine /\ LastLine(consumed') # <<>>
       /\ Take(LastLine(consumed'), 2) \in {<<"I","D">>, <<"/","/">>}

\* a joined field as claimed: null when no line contributed non-empty content
ClaimedField(sep, list) ==
    IF \A k \in 1..Len(list) : list[k] = <<>> THEN None
    ELSE Some(Join(sep, list))

ClaimedRow(cur) ==
    [EC_number |-> cur.EC_number,
     Enzyme_name |-> ClaimedField(<<" ">>, cur.Enzyme_name),
     Alt_names |-> ClaimedField(<<" ">>, cur.Alt_names),
     Reaction |-> ClaimedField(<<" ">>, cur.Reaction),
     Prosite_refs |-> ClaimedField(<<";", " ">>, cur.Prosite_refs),
     UniProt_IDs |-> ClaimedField(<<",">>, cur.UniProt_IDs)]

\* C19: every flush of an entry with a non-null id appends one record; its
\* accession field is null when the entry has no accession, its name,
\* alt-names, reaction and cross-refs are null when no DE/AN/CA/PR line
\* contributed non-empty content, and otherwise they are the line contents
\* joined by one space (cross-refs by "; ") in line order.
C19_FlushedFields ==
    [][(IsFlushStep /\ current.EC_number # None)
        => /\ Len(rows') = Len(rows) + 1
           /\ SubSeq(rows', 1, Len(rows)) = rows
           /\ rows'[Len(rows')] = ClaimedRow(current)]_vars

(***************************************************************************)
(* The result size a lookup request asks for                               *)
(***************************************************************************)
RequestSize == 499       \* params["size"]
ServiceLimit == 500      \* the most results the service returns per request

\* how many distinct accessions the modelled pairs tables hold
IdCounts == {0, 1, ServiceLimit - 1, ServiceLimit, ServiceLimit + 1}

\* the params of the request fetch_uniprot_batch sends for a chunk: one
\* accession clause per element of the chunk, and the size asked for
RequestFor(chunk) == [n_accessions |-> Len(chunk), size |-> RequestSize]

InitSize == q_n_ids = 0 /\ q_chunk_size = 0 /\ q_request = None

\* the pairs table read and the chunk_size argument given
SetInput ==
    /\ q_chunk_size = 0
    /\ \E n \in IdCounts, cs \in 1..ServiceLimit :
        /\ q_n_ids' = n
        /\ q_chunk_size' = cs
    /\ UNCHANGED <<q_request, notSize>>

\* the request of one iteration of the loop over the chunks
SendRequest ==
    /\ q_chunk_size > 0
    /\ q_request = None
    /\ LET unique_ids == [i \in 1..q_n_ids |-> i]
           cks == chunk_list(unique_ids, q_chunk_size)
       IN \E k \in 1..Len(cks) : q_request' = Some(RequestFor(cks[k]))
    /\ UNCHANGED <<q_n_ids, q_chunk_size, notSize>>

InitQ == InitSize /\ IdleParse /\ IdleDR /\ IdleFetch /\ IdleMerge /\ IdleNorm
    /\ IdleStage /\ IdleExplode
NextQ == SetInput \/ SendRequest
SpecSize == InitQ /\ [][NextQ]_vars

\* C20: for every chunk size from 1 to the service's limit, a request asks
\* for at least as many results as its chunk has accessions.
C20_RequestCoversChunk ==
    q_request # None => q_request[1].size >= q_request[1].n_accessions

====
